---------------------------- MODULE Spec2Model ----------------------------
(***************************************************************************)
(* A model of BlocksBuffer (src/ordering_buffer.cpp): a circular buffer of *)
(* (Block, epoch) pairs, filled out of order by AddBlock and drained in    *)
(* order by GetCurrentBlock, with SetCurrentBlocknum repositioning the     *)
(* cursor current_blocknum.                                                *)
(*                                                                         *)
(* Threads: the producers of Producers call AddBlock, one consumer calls   *)
(* GetCurrentBlock, one further thread calls SetCurrentBlocknum.  Every    *)
(* access to shared memory and every lock operation is a step of its own   *)
(* where another thread can observe the difference.                        *)
(***************************************************************************)
EXTENDS Integers, Sequences, FiniteSets, TLC

\* ------------------------------------------------------------------ bounds

\* buffer_size, the constructor's argument (the program passes 100).
BufferSize == 2

\* The largest block number a producer submits or the cursor is set to.
MaxBlock == 2

\* How many AddBlock calls and GetCurrentBlock calls a behaviour holds.  It
\* holds at most one SetCurrentBlocknum call.
MaxAdds == 2

MaxGets == 3

\* The producer threads.
Producers == {"p1", "p2"}

\* Negative block numbers a caller may pass (Block(int n) accepts any int).
NegBlocks == {-1}

Blocks == NegBlocks \cup (0 .. MaxBlock)

SetValues == 0 .. MaxBlock

\* ------------------------------------------------- unsigned int arithmetic

\* INT_MAX of a 32-bit int.
IntMax == 2147483647

\* b.number() / buffer_size with buffer_size an unsigned int: the int operand
\* is converted to unsigned (n + 2^32 when n < 0) and the quotient converted
\* back to int.  2^32 + n is written 2*IntMax + (2 + n) to stay in 32 bits.
UDiv(n, size) ==
    IF n >= 0
    THEN n \div size
    ELSE 2 * (IntMax \div size) + ((2 * (IntMax % size) + 2 + n) \div size)

\* b.number() % buffer_size, computed in unsigned int as above.
UMod(n, size) ==
    IF n >= 0
    THEN n % size
    ELSE (2 * (IntMax % size) + 2 + n) % size

\* int epoch = number / buffer_size;
EpochOf(n) == UDiv(n, BufferSize)

\* int index = number % buffer_size;
IndexOf(n) == UMod(n, BufferSize)

\* ------------------------------------------------------------------- state

VARIABLES
    buffer,            \* vector< pair<Block, int> >: index -> [first, second]
    current_blocknum,  \* the cursor
    blocknum_mutex,    \* holder of current_blocknum_mutex: "free", "get", "set"
    slot_mutex,        \* holder of current_slot_mutex: "free", "get", a producer
    gpc,               \* GetCurrentBlock: the consumer's position
    g_target,          \* the value of current_blocknum it computed epoch/index from
    g_epoch,           \* its local epoch
    g_index,           \* its local index
    apc,               \* AddBlock: each producer's position
    a_block,           \* the number of the block each producer is adding
    a_locked,          \* whether the producer took the b.number() == current_blocknum branch
    spc,               \* SetCurrentBlocknum: the caller's position ("done" after its call)
    s_blocknum,        \* its argument
    g_seen,            \* history: the number in the slot when its epoch matched
    g_awaited,         \* history: an AddBlock of g_target began while the
                       \*   consumer was inside current_slot_cv.wait
    s_behind,          \* history: the target of the GetCurrentBlock under way when
                       \*   SetCurrentBlocknum was called, -1 if none was
    last_set,          \* history: the value SetCurrentBlocknum stored since the
                       \*   last return of GetCurrentBlock, -1 if none
    delivered,         \* history: one record per GetCurrentBlock that returned
    submitted,         \* history: the numbers AddBlock was called with
    written,           \* history: the numbers whose AddBlock stored its epoch
    resubmitted,       \* history: some AddBlock call repeated a number
    overrun,           \* history: some AddBlock call was buffer_size or more ahead of the cursor
    nadds              \* history: AddBlock calls made

vars == << buffer, current_blocknum, blocknum_mutex, slot_mutex,
           gpc, g_target, g_epoch, g_index,
           apc, a_block, a_locked, spc, s_blocknum,
           g_seen, g_awaited, s_behind, last_set,
           delivered, submitted, written, resubmitted, overrun, nadds >>

getVars == << gpc, g_target, g_epoch, g_index, g_seen, g_awaited >>
addVars == << apc, a_block, a_locked >>
setVars == << spc, s_blocknum, s_behind >>
addHist == << submitted, written, resubmitted, overrun, nadds >>

\* BlocksBuffer(bsize): every slot make_pair(Block(0), -1), current_blocknum 0.
Init ==
    /\ buffer = [i \in 0 .. BufferSize - 1 |-> [first |-> 0, second |-> -1]]
    /\ current_blocknum = 0
    /\ blocknum_mutex = "free"
    /\ slot_mutex = "free"
    /\ gpc = "idle"
    /\ g_target = 0
    /\ g_epoch = 0
    /\ g_index = 0
    /\ apc = [p \in Producers |-> "idle"]
    /\ a_block = [p \in Producers |-> 0]
    /\ a_locked = [p \in Producers |-> FALSE]
    /\ spc = "idle"
    /\ s_blocknum = 0
    /\ g_seen = 0
    /\ g_awaited = FALSE
    /\ s_behind = -1
    /\ last_set = -1
    /\ delivered = << >>
    /\ submitted = {}
    /\ written = {}
    /\ resubmitted = FALSE
    /\ overrun = FALSE
    /\ nadds = 0


\* ------------------------------------------------------------ GetCurrentBlock

\* What a returning GetCurrentBlock leaves in the history: the cursor value it
\* targeted, the number of the Block it returned, whether it went through
\* current_slot_cv.wait, current_blocknum as it left it, the number it saw in
\* the slot when the epoch matched, and the value a SetCurrentBlocknum stored
\* between the previous return and this call (-1 if none did).
Delivery(waited) ==
    [target |-> g_target,
     number |-> buffer[g_index].first,
     waited |-> waited,
     after  |-> current_blocknum + 1,
     seen   |-> g_seen,
     set    |-> last_set]

\* lock_guard< mutex > blocknum_lck(current_blocknum_mutex); then the locals
\* epoch and index from current_blocknum.
GetLockBlocknum ==
    /\ gpc = "idle"
    /\ Len(delivered) < MaxGets
    /\ blocknum_mutex = "free"
    /\ blocknum_mutex' = "get"
    /\ g_target' = current_blocknum
    /\ g_epoch' = EpochOf(current_blocknum)
    /\ g_index' = IndexOf(current_blocknum)
    /\ gpc' = "slotlock"
    /\ UNCHANGED << buffer, current_blocknum, slot_mutex, g_seen, g_awaited,
                    addVars, setVars, last_set, delivered, addHist >>

\* unique_lock<mutex> slot_lck(current_slot_mutex);
GetLockSlot ==
    /\ gpc = "slotlock"
    /\ slot_mutex = "free"
    /\ slot_mutex' = "get"
    /\ gpc' = "check"
    /\ UNCHANGED << buffer, current_blocknum, blocknum_mutex, g_target, g_epoch,
                    g_index, g_seen, g_awaited, addVars, setVars, last_set,
                    delivered, addHist >>

\* The holder of current_slot_mutex while the consumer is inside
\* current_slot_cv.wait(slot_lck): wait releases the mutex.
SlotMutexDuringWait_Kept == "get"
SlotMutexDuringWait == "free"

\* The test buffer[index].second == epoch.
EpochMatches_Never == FALSE
EpochMatches == buffer[g_index].second = g_epoch

\* if(buffer[index].second == epoch): on a match go on holding the mutex, else
\* enter current_slot_cv.wait(slot_lck).
GetCheck ==
    /\ gpc = "check"
    /\ IF EpochMatches
       THEN /\ gpc' = "hit"
            /\ g_seen' = buffer[g_index].first
            /\ UNCHANGED slot_mutex
       ELSE /\ gpc' = "waiting"
            /\ slot_mutex' = SlotMutexDuringWait
            /\ UNCHANGED g_seen
    /\ UNCHANGED << buffer, current_blocknum, blocknum_mutex, g_target, g_epoch,
                    g_index, g_awaited, addVars, setVars, last_set, delivered,
                    addHist >>

\* current_blocknum++
Incremented_ByTwo == current_blocknum + 2
Incremented == current_blocknum + 1

\* return buffer[index].first; returns a copy: the slot keeps its pair.
SlotsAfterReturn_Cleared ==
    [buffer EXCEPT ![g_index] = [first |-> 0, second |-> -1]]
SlotsAfterReturn == buffer

\* The return of either branch: current_blocknum++; return buffer[index].first;
\* and both locks are released as the function is left.
GetReturn(waited) ==
    /\ current_blocknum' = Incremented
    /\ buffer' = SlotsAfterReturn
    /\ delivered' = Append(delivered, Delivery(waited))
    /\ slot_mutex' = "free"
    /\ blocknum_mutex' = "free"
    /\ gpc' = "idle"
    /\ g_target' = 0
    /\ g_epoch' = 0
    /\ g_index' = 0
    /\ g_seen' = 0
    /\ g_awaited' = FALSE
    /\ last_set' = -1
    /\ UNCHANGED << addVars, setVars, addHist >>

\* The then branch: the slot held the epoch.
GetReturnHit ==
    /\ gpc = "hit"
    /\ GetReturn(FALSE)

\* condition_variable::wait may return without any notify (a spurious wake-up).
SpuriousWakeup ==
    /\ gpc = "waiting"
    /\ gpc' = "notified"
    /\ UNCHANGED << buffer, current_blocknum, blocknum_mutex, slot_mutex,
                    g_target, g_epoch, g_index, g_seen, g_awaited, addVars,
                    setVars, last_set, delivered, addHist >>

\* wait re-locks current_slot_mutex before it returns.
GetReacquire ==
    /\ gpc = "notified"
    /\ slot_mutex = "free"
    /\ slot_mutex' = "get"
    /\ gpc' = "woken"
    /\ UNCHANGED << buffer, current_blocknum, blocknum_mutex, g_target, g_epoch,
                    g_index, g_seen, g_awaited, addVars, setVars, last_set,
                    delivered, addHist >>

\* The else branch after the wait: no second look at the epoch.
GetReturnWoken ==
    /\ gpc = "woken"
    /\ GetReturn(TRUE)

\* ------------------------------------------------------------------ AddBlock

\* AddBlock(b) up to its test b.number() == current_blocknum, which reads the
\* cursor without any lock.
AddBlockBegin(p, n) ==
    /\ apc[p] = "idle"
    /\ nadds < MaxAdds
    /\ a_block' = [a_block EXCEPT ![p] = n]
    /\ a_locked' = [a_locked EXCEPT ![p] = (n = current_blocknum)]
    /\ apc' = [apc EXCEPT ![p] = IF n = current_blocknum THEN "lock" ELSE "first"]
    /\ submitted' = submitted \cup {n}
    /\ resubmitted' = (resubmitted \/ n \in submitted)
    /\ overrun' = (overrun \/ n >= current_blocknum + BufferSize)
    /\ nadds' = nadds + 1
    /\ g_awaited' = (g_awaited \/ (gpc = "waiting" /\ n = g_target))
    /\ UNCHANGED << buffer, current_blocknum, blocknum_mutex, slot_mutex,
                    gpc, g_target, g_epoch, g_index, g_seen, setVars, last_set,
                    delivered, written >>

\* lock_guard<mutex> lck(current_slot_mutex);
AddLock(p) ==
    /\ apc[p] = "lock"
    /\ slot_mutex = "free"
    /\ slot_mutex' = p
    /\ apc' = [apc EXCEPT ![p] = "first"]
    /\ UNCHANGED << buffer, current_blocknum, blocknum_mutex, getVars, a_block,
                    a_locked, setVars, last_set, delivered, addHist >>

\* buffer[index] = make_pair(b, epoch), first half: pair's assignment stores
\* first, then second.
AddWriteFirst(p) ==
    /\ apc[p] = "first"
    /\ buffer' = [buffer EXCEPT ![IndexOf(a_block[p])].first = a_block[p]]
    /\ apc' = [apc EXCEPT ![p] = "second"]
    /\ UNCHANGED << current_blocknum, blocknum_mutex, slot_mutex, getVars,
                    a_block, a_locked, setVars, last_set, delivered, addHist >>

\* buffer[index] = make_pair(b, epoch), second half.  The else branch ends
\* here.
AddWriteSecond(p) ==
    /\ apc[p] = "second"
    /\ buffer' = [buffer EXCEPT
                    ![IndexOf(a_block[p])].second = EpochOf(a_block[p])]
    /\ written' = written \cup {a_block[p]}
    /\ IF a_locked[p]
       THEN /\ apc' = [apc EXCEPT ![p] = "notify"]
            /\ UNCHANGED a_block
       ELSE /\ apc' = [apc EXCEPT ![p] = "idle"]
            /\ a_block' = [a_block EXCEPT ![p] = 0]
    /\ UNCHANGED << current_blocknum, blocknum_mutex, slot_mutex, getVars,
                    a_locked, setVars, last_set, delivered, submitted,
                    resubmitted, overrun, nadds >>

\* current_slot_cv.notify_one(); then lck releases current_slot_mutex.  A
\* notify with no thread inside wait is lost.
AddNotify(p) ==
    /\ apc[p] = "notify"
    /\ gpc' = IF gpc = "waiting" THEN "notified" ELSE gpc
    /\ slot_mutex' = "free"
    /\ apc' = [apc EXCEPT ![p] = "idle"]
    /\ a_block' = [a_block EXCEPT ![p] = 0]
    /\ a_locked' = [a_locked EXCEPT ![p] = FALSE]
    /\ UNCHANGED << buffer, current_blocknum, blocknum_mutex, g_target, g_epoch,
                    g_index, g_seen, g_awaited, setVars, last_set, delivered,
                    addHist >>

\* -------------------------------------------------------- SetCurrentBlocknum

\* SetCurrentBlocknum(blocknum) is called.
SetCall(v) ==
    /\ spc = "idle"
    /\ spc' = "called"
    /\ s_blocknum' = v
    /\ s_behind' = IF gpc = "idle" THEN -1 ELSE g_target
    /\ UNCHANGED << buffer, current_blocknum, blocknum_mutex, slot_mutex,
                    getVars, addVars, last_set, delivered, addHist >>

\* When lock_guard< mutex > lck(current_blocknum_mutex) can be taken.
SetCanLock_Unguarded == TRUE
SetCanLock == blocknum_mutex = "free"

\* lock_guard< mutex > lck(current_blocknum_mutex);
SetLock ==
    /\ spc = "called"
    /\ SetCanLock
    /\ blocknum_mutex' = "set"
    /\ spc' = "locked"
    /\ UNCHANGED << buffer, current_blocknum, slot_mutex, getVars, addVars,
                    s_blocknum, s_behind, last_set, delivered, addHist >>

\* current_blocknum = blocknum; and lck is released.
SetAssign ==
    /\ spc = "locked"
    /\ current_blocknum' = s_blocknum
    /\ blocknum_mutex' = "free"
    /\ spc' = "done"
    /\ s_blocknum' = 0
    /\ s_behind' = -1
    /\ last_set' = s_blocknum
    /\ UNCHANGED << buffer, slot_mutex, getVars, addVars, delivered, addHist >>

\* ------------------------------------------------------------ specification

Get ==
    \/ GetLockBlocknum
    \/ GetLockSlot
    \/ GetCheck
    \/ GetReturnHit
    \/ GetReacquire
    \/ GetReturnWoken

Add(p) ==
    \/ \E n \in Blocks : AddBlockBegin(p, n)
    \/ AddLock(p)
    \/ AddWriteFirst(p)
    \/ AddWriteSecond(p)
    \/ AddNotify(p)

Set ==
    \/ \E v \in SetValues : SetCall(v)
    \/ SetLock
    \/ SetAssign

Next ==
    \/ Get
    \/ SpuriousWakeup
    \/ \E p \in Producers : Add(p)
    \/ Set

Spec == Init /\ [][Next]_vars


\* The steps of a call under way, which a running thread goes on taking; a
\* spurious wake-up and the start of a new AddBlock or SetCurrentBlocknum call
\* are not among them.
FairSpec ==
    /\ Spec
    /\ WF_vars(Get)
    /\ \A p \in Producers :
          WF_vars(AddLock(p) \/ AddWriteFirst(p) \/ AddWriteSecond(p) \/ AddNotify(p))
    /\ WF_vars(SetLock \/ SetAssign)

\* ------------------------------------------------------------------ claims

\* The preconditions of the ordering contract: SetCurrentBlocknum never called,
\* every AddBlock call for a number in 0 .. MaxBlock less than buffer_size
\* ahead of the cursor, and no number submitted twice.
InOrderUse ==
    /\ spc = "idle"
    /\ ~overrun
    /\ ~resubmitted
    /\ submitted \subseteq 0 .. MaxBlock

\* C1: with no SetCurrentBlocknum call and every AddBlock within buffer_size
\* of the cursor, the i-th GetCurrentBlock that returns (i = 0, 1, ...)
\* returns the Block numbered i.
C1_Ordering ==
    InOrderUse => \A i \in 1 .. Len(delivered) : delivered[i].number = i - 1

\* AddBlock was called exactly once for each of 0 .. N-1, for nothing else,
\* and every one of the calls has returned.
AllAdded(N) ==
    /\ InOrderUse
    /\ submitted = 0 .. N - 1
    /\ nadds = N
    /\ \A p \in Producers : apc[p] = "idle"

\* N calls of GetCurrentBlock have returned, with the numbers 0 .. N-1.
AllDelivered(N) ==
    /\ Len(delivered) >= N
    /\ \A i \in 1 .. N : delivered[i].number = i - 1

\* C2: once AddBlock has been called for each of 0 .. N-1 (N <= buffer_size)
\* and all the calls have returned, the consumer's first N GetCurrentBlock
\* calls eventually all return, delivering 0 .. N-1 (unless a further AddBlock
\* or a SetCurrentBlocknum call is made).
C2_Delivery ==
    \A N \in 1 .. BufferSize :
        AllAdded(N) ~> (AllDelivered(N) \/ ~AllAdded(N))

\* C3: a GetCurrentBlock that found its target n missing returns only after
\* an AddBlock of n has stored the slot, and returns the Block numbered n.
C3_Blocking ==
    \A i \in 1 .. Len(delivered) :
        delivered[i].waited =>
            /\ delivered[i].target \in written
            /\ delivered[i].number = delivered[i].target

\* The first i-1 returns were the Blocks 0 .. i-2 in order, each found in its
\* slot with its epoch (so stored by an AddBlock before).
ConsumedInOrder(i) ==
    \A j \in 1 .. i - 1 :
        /\ delivered[j].target = j - 1
        /\ delivered[j].number = j - 1
        /\ ~delivered[j].waited

\* C4: under in-order use, a GetCurrentBlock targeting n whose slot still
\* holds the consumed Block n - buffer_size of the epoch before never returns
\* that Block.
C4_WrapAround ==
    \A i \in 1 .. Len(delivered) :
        LET n == delivered[i].target
        IN  (InOrderUse /\ n >= BufferSize /\ ConsumedInOrder(i))
                => delivered[i].number # n - BufferSize


\* The Block numbered v was returned for target v, found in its slot, by one
\* of the first i-1 returns.
DeliveredBefore(v, i) ==
    \E j \in 1 .. i - 1 :
        /\ delivered[j].target = v
        /\ delivered[j].number = v
        /\ ~delivered[j].waited

\* C5: the GetCurrentBlock that follows a completed SetCurrentBlocknum(v)
\* targets v and leaves the cursor at v+1, and if it found the slot of v still
\* holding the Block numbered v delivered before, with the epoch of v, it
\* returns that Block without waiting (no negative number being submitted).
C5_ResetSemantics ==
    \A i \in 1 .. Len(delivered) :
        LET d == delivered[i]
        IN  (d.set >= 0 /\ submitted \subseteq 0 .. MaxBlock) =>
                /\ d.target = d.set
                /\ d.after = d.set + 1
                /\ (~d.waited /\ d.seen = d.set /\ DeliveredBefore(d.set, i))
                       => d.number = d.set

\* C6: from GetCurrentBlock's read of the cursor to its increment the cursor
\* keeps the value read, and every return leaves the cursor one above the
\* value targeted.
C6_CursorHeld ==
    /\ gpc # "idle" => current_blocknum = g_target
    /\ \A i \in 1 .. Len(delivered) :
          delivered[i].after = delivered[i].target + 1

\* A SetCurrentBlocknum that wants another value is called while a
\* GetCurrentBlock is suspended on its target.
C6_Witness ==
    /\ gpc = "waiting"
    /\ spc = "called"
    /\ s_blocknum # g_target

\* C7: a SetCurrentBlocknum called while a GetCurrentBlock is under way on
\* target n takes the cursor's mutex only after that call has returned, which
\* needs n to have been stored: with n never submitted it stays blocked.
C7_SetWaitsForGet ==
    /\ spc = "locked" => gpc = "idle"
    /\ (spc = "locked" /\ s_behind >= 0) => s_behind \in written

\* C8 as first stated: no mutex at all is held while the consumer is
\* suspended in current_slot_cv.wait.
C8_NoMutexHeldWhileWaiting ==
    gpc = "waiting" => (slot_mutex # "get" /\ blocknum_mutex # "get")

\* C8: every AddBlock call returns, whatever the consumer and the caller of
\* SetCurrentBlocknum are doing: current_slot_mutex, the only lock AddBlock
\* takes, is not held while the consumer is suspended, and whoever holds it
\* waits for no other lock.
C8_AddNeverBlocks ==
    /\ [](gpc = "waiting" => slot_mutex # "get")
    /\ [](\A p \in Producers : slot_mutex = p => apc[p] \in {"first", "second", "notify"})
    /\ \A p \in Producers : (apc[p] # "idle") ~> (apc[p] = "idle")

\* A producer is about to lock current_slot_mutex while the consumer is
\* suspended and a SetCurrentBlocknum call is blocked behind it.
C8_Witness ==
    /\ gpc = "waiting"
    /\ spc = "called"
    /\ \E p \in Producers : apc[p] = "lock"

\* C9: an AddBlock of a Block with a negative number stores nothing: no slot
\* ever holds a negative number or an epoch computed from one.
C9_NegativeRejected ==
    /\ \A n \in written : n >= 0
    /\ \A i \in DOMAIN buffer : buffer[i].first >= 0

\* C10: the consumer is never suspended with no AddBlock under way while the
\* slot of its target already holds the target's epoch (under in-order use,
\* where the cursor only advances, every earlier Block found in its slot).
C10_NoLostWakeup ==
    ~ /\ InOrderUse
      /\ ConsumedInOrder(Len(delivered) + 1)
      /\ gpc = "waiting"
      /\ \A p \in Producers : apc[p] = "idle"
      /\ buffer[g_index].second = g_epoch

\* C11: a GetCurrentBlock that returns after current_slot_cv.wait reads a
\* slot that holds the epoch of its target, and the Block numbered as the
\* target, at the moment it returns.
C11_WokenSlotMatches ==
    [][(gpc = "woken" /\ gpc' = "idle") =>
          /\ buffer[g_index].second = g_epoch
          /\ buffer[g_index].first = g_target]_vars

\* C12: no AddBlock is in the middle of storing buffer[I] while the consumer
\* holds current_slot_mutex and is testing or reading buffer[I].
C12_WriteExcludesRead ==
    ~ /\ gpc \in {"check", "hit", "woken"}
      /\ \E p \in Producers :
            /\ apc[p] = "second"
            /\ IndexOf(a_block[p]) = g_index

\* C13: a GetCurrentBlock that matched the epoch of its target returns a
\* Block whose number has that epoch and that index.
C13_NoTornRead ==
    \A i \in 1 .. Len(delivered) :
        ~delivered[i].waited =>
            /\ EpochOf(delivered[i].number) = EpochOf(delivered[i].target)
            /\ IndexOf(delivered[i].number) = IndexOf(delivered[i].target)

\* C14: an AddBlock(n) that begins while GetCurrentBlock is inside
\* current_slot_cv.wait on target n takes the branch that stores under
\* current_slot_mutex and notifies; that GetCurrentBlock returns Block n and
\* leaves current_blocknum at n + 1 (stated for callers that never reset the
\* cursor, repeat a number or run buffer_size ahead).
C14_Handshake ==
    /\ [][\A p \in Producers :
            (apc[p] = "idle" /\ apc'[p] # "idle" /\ gpc = "waiting"
                /\ a_block'[p] = g_target) => apc'[p] = "lock" /\ a_locked'[p]]_vars
    /\ [][(InOrderUse /\ g_awaited /\ gpc # "idle" /\ gpc' = "idle") =>
            /\ buffer[g_index].first = g_target
            /\ current_blocknum' = g_target + 1]_vars

\* C15: when the slot at the cursor's index holds the cursor's epoch as
\* GetCurrentBlock tests it, the call does not enter current_slot_cv.wait: it
\* keeps current_slot_mutex, returns the Block it reads from that slot and
\* leaves current_blocknum exactly one above its target.
C15_ImmediatePath ==
    [][/\ (gpc = "check" /\ buffer[g_index].second = g_epoch /\ gpc' # "check")
            => (gpc' = "hit" /\ slot_mutex' = "get")
       /\ (gpc = "hit" /\ gpc' # "hit")
            => /\ gpc' = "idle"
               /\ g_index = IndexOf(g_target)
               /\ Len(delivered') = Len(delivered) + 1
               /\ delivered'[Len(delivered')].target = g_target
               /\ delivered'[Len(delivered')].number = buffer[g_index].first
               /\ ~delivered'[Len(delivered')].waited
               /\ current_blocknum' = current_blocknum + 1
               /\ current_blocknum' = g_target + 1]_vars

\* A GetCurrentBlock returned Block 1 for target 1 without waiting.
C15_Witness ==
    \E i \in 1 .. Len(delivered) :
        /\ ~delivered[i].waited
        /\ delivered[i].target = 1
        /\ delivered[i].number = 1
        /\ delivered[i].seen = 1
        /\ delivered[i].after = 2

\* The GetCurrentBlock calls that returned after a SetCurrentBlocknum had
\* stored a value: the records that carry it and those after them.
AfterReset ==
    {i \in 1 .. Len(delivered) :
        \E j \in 1 .. i : delivered[j].set >= 0}

\* The value the last SetCurrentBlocknum stored, 0 when none has run.
ResetBase ==
    IF last_set >= 0 THEN last_set
    ELSE IF AfterReset = {} THEN 0
    ELSE delivered[CHOOSE i \in AfterReset : \A j \in AfterReset : i <= j].set

\* The GetCurrentBlock calls that returned since the last SetCurrentBlocknum
\* stored its value, or since construction.
ReturnsSinceReset ==
    IF last_set >= 0 THEN 0
    ELSE IF AfterReset = {} THEN Len(delivered)
    ELSE Cardinality(AfterReset)

\* C16: current_blocknum is 0 at construction and changes only by +1 as a
\* GetCurrentBlock returns or by the assignment of SetCurrentBlocknum; no step
\* of AddBlock changes it; at every moment it equals the value the last
\* SetCurrentBlocknum stored (0 if none) plus the number of GetCurrentBlock
\* calls that returned since.
C16_CursorDiscipline ==
    /\ [](current_blocknum = ResetBase + ReturnsSinceReset)
    /\ [][current_blocknum' # current_blocknum =>
            \/ /\ gpc \in {"hit", "woken"}
               /\ gpc' = "idle"
               /\ Len(delivered') = Len(delivered) + 1
               /\ current_blocknum' = current_blocknum + 1
            \/ /\ spc = "locked"
               /\ spc' = "done"
               /\ current_blocknum' = s_blocknum]_vars
    /\ [][(\E p \in Producers : apc'[p] # apc[p]) =>
            current_blocknum' = current_blocknum]_vars

\* SetCurrentBlocknum(2) ran after one GetCurrentBlock had returned, and two
\* more have returned since: the cursor is 4.
C16_Witness ==
    /\ spc = "done"
    /\ Len(delivered) = 3
    /\ delivered[2].set = 2
    /\ ResetBase = 2
    /\ ReturnsSinceReset = 2
    /\ current_blocknum = 4

\* The pair one AddBlock(n) stores.
WrittenBy(n) == [first |-> n, second |-> EpochOf(n)]

\* C17: the steps of AddBlock(s) store into slot s % buffer_size and change no
\* other slot; once no AddBlock is under way (all of them of numbers from 0
\* up) every slot holds the pair of one whole write, make_pair(Block(s), s / buffer_size) of some AddBlock(s) that
\* stored there, or the pair it was constructed with.
C17_WholeWrite ==
    /\ [][\A i \in 0 .. BufferSize - 1 :
            buffer'[i] # buffer[i] =>
                \E p \in Producers :
                    /\ apc[p] \in {"first", "second"}
                    /\ apc'[p] # apc[p]
                    /\ i = IndexOf(a_block[p])]_vars
    /\ []((submitted \subseteq 0 .. MaxBlock
                /\ \A p \in Producers : apc[p] = "idle") =>
            \A i \in 0 .. BufferSize - 1 :
                \/ buffer[i] = [first |-> 0, second |-> -1]
                \/ \E n \in written :
                        IndexOf(n) = i /\ buffer[i] = WrittenBy(n))

\* C18: when AddBlock(s + buffer_size) overwrites the slot of a stored and
\* not yet returned s, a GetCurrentBlock that targets s never returns
\* Block s + buffer_size without waiting; and one that waits on s while the
\* slot holds the pair of s + buffer_size and no AddBlock is under way leaves
\* the wait only after another AddBlock(s) has begun.
C18_OverrunNotDelivered ==
    /\ [](\A i \in 1 .. Len(delivered) :
            (~delivered[i].waited /\ delivered[i].target \in written) =>
                delivered[i].number # delivered[i].target + BufferSize)
    /\ [][(/\ gpc = "waiting"
           /\ gpc' = "notified"
           /\ \A p \in Producers : apc[p] = "idle"
           /\ g_target \in written
           /\ buffer[g_index] = WrittenBy(g_target + BufferSize)) =>
                g_awaited]_vars

\* C19: no step of GetCurrentBlock or SetCurrentBlocknum changes any slot of
\* buffer: a slot changes only in a storing step of an AddBlock on its index,
\* so a returned Block and its epoch stay in their slot until an AddBlock
\* overwrites them.
C19_OnlyAddBlockWrites ==
    /\ [][(Get \/ SpuriousWakeup \/ Set) => buffer' = buffer]_vars
    /\ [][buffer' # buffer =>
            \E p \in Producers :
                /\ apc[p] \in {"first", "second"}
                /\ apc'[p] # apc[p]
                /\ \A i \in 0 .. BufferSize - 1 :
                      i # IndexOf(a_block[p]) => buffer'[i] = buffer[i]]_vars

\* Block 0 was returned without waiting, SetCurrentBlocknum has run, and
\* slot 0 still holds the pair AddBlock(0) stored.
C19_Witness ==
    /\ Len(delivered) >= 1
    /\ ~delivered[1].waited
    /\ delivered[1].target = 0
    /\ delivered[1].number = 0
    /\ gpc = "idle"
    /\ spc = "done"
    /\ buffer[0] = WrittenBy(0)

=============================================================================
